---- MODULE Spec2Model ----
(***************************************************************************)
(* Model of the diff-to-suggestion compiler of suggest-changes             *)
(* (src/index.js, the TypeScript-annotated revision starting at line 382). *)
(*                                                                         *)
(* Text is modelled as a sequence of characters (one-character strings,    *)
(* plus the two fence tokens), so that joining, fencing, parsing and key   *)
(* construction are computed, not assumed.  A value that may be null or    *)
(* undefined in the code is modelled as <<>> (absent) or <<v>> (present);  *)
(* an optional record field is modelled by its presence in the record.     *)
(*                                                                         *)
(* Four specifications share the variables: Spec (the compiler), KeySpec   *)
(* (the keys of the posted comments), ValidatorSpec (the diff-boundary     *)
(* validator and the createReview call of run) and ReviewSpec (the         *)
(* submission of src/unnamed/part_003, batch by batch), with               *)
(* ReviewLiveSpec adding fairness.  Each holds the others idle.            *)
(***************************************************************************)
EXTENDS Integers, Sequences, FiniteSets, TLC

VARIABLES
    chunk,          \* the parsed diff chunk {changes, fromFileRange.start,
                    \* toFileRange.start} (index.js 829-831)
    pc,             \* position of the run: "group", "draft", "done", "rerun"
    i,              \* loop index of groupChangesForSuggestions, 1-based (593)
    groups,         \* groups closed so far (590)
    currentGroup,   \* the group being built (591)
    g,              \* index of the next group given to buildCommentDraft (833)
    built,          \* per group handled: the group, its suggestion, its
                    \* position and its draft (849-865)
    drafts,         \* drafts built so far, in group order (890-896)
    existingKeys,   \* existingCommentKeys of the first run (888)
    result,         \* drafts returned by the first run (908-918)
    secondKeys,     \* existingCommentKeys of the second run
    secondResult,   \* drafts returned by the second run
    \* The diff-boundary validator inside run (index.js 1041-1124)
    vpc,            \* position: "idle", "fetch", "parse", "filtered", "returned",
                    \* "submitted"
    octokit,        \* what pulls.get of the client does (924-954)
    initialComments,\* the drafts handed to the validator (1099-1102)
    diffString,     \* result of fetchCanonicalDiff: <<>> is null (1054)
    comments,       \* the drafts the validator returns to run (1103)
    reviewRequest,  \* the comments of the pulls.createReview call: <<>> before
                    \* the call (1113-1121)
    \* The submission orchestrator (src/unnamed/part_003 349-560)
    rpc,            \* position: "idle", "start", "batch", "pending", "list",
                    \* "attach", "next", "done", "failed"
    reviewDrafts,   \* the comments run submits (part_003 372)
    batchSize,      \* the number of comments a batch holds at most
    batches,        \* the batches of the run, in order
    batchIndex,     \* index of the batch in hand
    commentIndex,   \* index of the comment in hand in the salvage loop (536)
    pending,        \* the pending review of the salvage: <<>> or
                    \* <<[id, reused]>> (527-528)
    addedCount,     \* let added (534)
    skippedCount,   \* let skipped (535)
    batchError,     \* the error the batch createReview threw: <<>> if none (519)
    pendingError,   \* the error the pending createReview threw (440)
    calls,          \* the API calls made so far, in order
    outcomes,       \* what createReview returned for each finished batch, with
                    \* the comments the API accepted
    runResult,      \* the value run returns: <<>> before it returns
    raised,         \* the error run throws: <<>> if none
    inFlight,       \* the API requests sent and not yet answered, in order
    suspended,      \* TRUE while run waits at an await for an answer
    \* The deduplication of run against the posted comments (index.js 1087-1102)
    kpc,            \* position: "idle", "list", "keyed", "filtered"
    postedComments, \* the review comments pulls.listReviewComments returns
    candidates,     \* the drafts before the filter of generateReviewComments
    postedKeys,     \* const existingCommentKeys (1094)
    keptDrafts      \* the drafts that pass the filter (908-911)

compilerVars == <<chunk, pc, i, groups, currentGroup, g, built, drafts, existingKeys,
                  result, secondKeys, secondResult>>
validatorVars == <<vpc, octokit, initialComments, diffString, comments, reviewRequest>>
reviewVars == <<rpc, reviewDrafts, batchSize, batches, batchIndex, commentIndex, pending,
                addedCount, skippedCount, batchError, pendingError, calls, outcomes,
                runResult, raised, inFlight, suspended>>
keyVars == <<kpc, postedComments, candidates, postedKeys, keptDrafts>>
vars == <<compilerVars, validatorVars, reviewVars, keyVars>>

-----------------------------------------------------------------------------
\* Bounds of the model

MaxLen == 4
MaxMalformedLen == 2
MaxOldStart == 2
MaxNewStart == 3
MaxComments == 2
MaxLine == 3
MaxDiffLen == 2
MaxDrafts == 5
\* The batch size of the model, standing for the 100 comments of a review.
BatchSize == 2
MaxBatches == 3
MaxKeyLine == 2

-----------------------------------------------------------------------------
\* Text

NL == "\n"
Blank == <<>>
\* The opening and closing fence of createSuggestion (four backticks, with
\* and without the word suggestion), each one token of the text.
FenceOpen == "[4 backticks]suggestion"
FenceClose == "[4 backticks]"
Path == <<"f">>

\* Array.prototype.slice on 1-based inclusive bounds, clamped to the sequence.
slice(s, lo, hi) ==
    LET first == IF lo < 1 THEN 1 ELSE lo
        last == IF hi > Len(s) THEN Len(s) ELSE hi
    IN [k \in 1..(IF last >= first THEN last - first + 1 ELSE 0) |-> s[first + k - 1]]

RECURSIVE Join(_, _)
Join(lines, sep) ==
    IF Len(lines) = 0 THEN <<>>
    ELSE IF Len(lines) = 1 THEN lines[1]
    ELSE lines[1] \o <<sep>> \o Join(Tail(lines), sep)

RECURSIVE Split(_, _)
Split(text, sep) ==
    IF \A k \in 1..Len(text) : text[k] # sep THEN <<text>>
    ELSE LET k == CHOOSE j \in 1..Len(text) :
                      text[j] = sep /\ \A h \in 1..(j - 1) : text[h] # sep
         IN <<slice(text, 1, k - 1)>> \o Split(slice(text, k + 1, Len(text)), sep)

Digit(d) == <<"0", "1", "2", "3", "4", "5", "6", "7", "8", "9">>[d + 1]

\* String(n) for a non-negative integer, as template literals render it.
RECURSIVE numberToText(_)
numberToText(n) ==
    IF n < 10 THEN <<Digit(n)>> ELSE numberToText(n \div 10) \o <<Digit(n % 10)>>

createSuggestion(content) == <<FenceOpen, NL>> \o content \o <<NL, FenceClose>>

-----------------------------------------------------------------------------
\* Change records and type guards

AddedLine(c, a) == [type |-> "AddedLine", content |-> c, lineAfter |-> a]
DeletedLine(c, b) == [type |-> "DeletedLine", content |-> c, lineBefore |-> b]
UnchangedLine(c, b, a) ==
    [type |-> "UnchangedLine", content |-> c, lineBefore |-> b, lineAfter |-> a]

isAddedLine(change) ==
    change.type = "AddedLine" /\ "lineAfter" \in DOMAIN change

isDeletedLine(change) ==
    change.type = "DeletedLine" /\ "lineBefore" \in DOMAIN change

isUnchangedLine(change) ==
    /\ change.type = "UnchangedLine"
    /\ "lineBefore" \in DOMAIN change
    /\ "lineAfter" \in DOMAIN change

addedLinesOf(changes) == SelectSeq(changes, isAddedLine)
deletedLinesOf(changes) == SelectSeq(changes, isDeletedLine)
unchangedLinesOf(changes) == SelectSeq(changes, isUnchangedLine)

Contents(lines) == [k \in 1..Len(lines) |-> lines[k].content]

\* Array.prototype.find / findLast over the truth values of the predicate on
\* each element, as an index: 0 when nothing matches.
FirstIndex(hits) ==
    IF \E k \in 1..Len(hits) : hits[k]
    THEN CHOOSE k \in 1..Len(hits) : hits[k] /\ \A h \in 1..(k - 1) : ~hits[h]
    ELSE 0

LastIndex(hits) ==
    IF \E k \in 1..Len(hits) : hits[k]
    THEN CHOOSE k \in 1..Len(hits) : hits[k] /\ \A h \in (k + 1)..Len(hits) : ~hits[h]
    ELSE 0

-----------------------------------------------------------------------------
\* Grouping engine

isUnchangedFollowedByAdded(group) ==
    /\ Len(group) > 0
    /\ isUnchangedLine(group[1])
    /\ \A k \in 2..Len(group) : isAddedLine(group[k])

isContentMovement(deleted, added) == deleted.content = added.content

detectLineMovement(changes) ==
    LET deletedLines == deletedLinesOf(changes)
        addedLines == addedLinesOf(changes)
    IN IF /\ Len(deletedLines) = 1
          /\ Len(addedLines) = 1
          /\ isContentMovement(deletedLines[1], addedLines[1])
       THEN <<[deleted |-> deletedLines[1], added |-> addedLines[1]]>>
       ELSE <<>>

isLineMovement(group, nextChange) ==
    IF ~isAddedLine(nextChange) THEN FALSE
    ELSE LET d == FirstIndex([k \in 1..Len(group) |-> isDeletedLine(group[k])])
         IN IF d = 0 THEN FALSE
            ELSE isContentMovement(group[d], nextChange)

\* shouldSplitForBlankLineInsertion testing the next change for the wrong kind.
shouldSplit_onAdded(group, nextChange) ==
    isUnchangedFollowedByAdded(group) /\ isAddedLine(nextChange)

shouldSplitForBlankLineInsertion(group, nextChange) ==
    isUnchangedFollowedByAdded(group) /\ isUnchangedLine(nextChange)

getLastChangedLineNumber(group) ==
    LET k == LastIndex([h \in 1..Len(group) |->
                            isDeletedLine(group[h]) \/ isAddedLine(group[h])])
    IN IF k = 0 THEN <<>>
       ELSE IF isDeletedLine(group[k]) THEN <<group[k].lineBefore>>
       ELSE <<group[k].lineAfter>>

\* The coordinate used for gap detection (index.js 605-611).
gapLineNumber(change) ==
    IF isDeletedLine(change) THEN <<change.lineBefore>>
    ELSE IF isAddedLine(change) THEN <<change.lineAfter>>
    ELSE IF isUnchangedLine(change) THEN <<change.lineBefore>>
    ELSE <<>>

\* The gap test of one loop iteration (index.js 623-628).
isGapSplit(group, change) ==
    LET lineNumber == gapLineNumber(change)
        lastChangedLineNumber == getLastChangedLineNumber(group)
    IN /\ ~isUnchangedLine(change)
       /\ lastChangedLineNumber # <<>>
       /\ lineNumber[1] > lastChangedLineNumber[1] + 1
       /\ ~isLineMovement(group, change)

\* groupLoopBody with the gap split forgetting groups.push(currentGroup).
groupLoopBody_gapForgetsPush(st, change) ==
    IF shouldSplitForBlankLineInsertion(st.currentGroup, change)
    THEN [groups |-> Append(st.groups, st.currentGroup), currentGroup |-> <<change>>]
    ELSE IF gapLineNumber(change) = <<>> THEN st
    ELSE IF isGapSplit(st.currentGroup, change)
    THEN [groups |-> st.groups, currentGroup |-> <<change>>]
    ELSE [groups |-> st.groups, currentGroup |-> Append(st.currentGroup, change)]

\* The loop iteration keeping a change that has no line number in the open group.
groupLoopBody_keepsUnnumbered(st, change) ==
    IF shouldSplitForBlankLineInsertion(st.currentGroup, change)
    THEN [groups |-> Append(st.groups, st.currentGroup), currentGroup |-> <<change>>]
    ELSE IF gapLineNumber(change) = <<>>
    THEN [groups |-> st.groups, currentGroup |-> Append(st.currentGroup, change)]
    ELSE IF isGapSplit(st.currentGroup, change)
    THEN [groups |-> Append(st.groups, st.currentGroup), currentGroup |-> <<change>>]
    ELSE [groups |-> st.groups, currentGroup |-> Append(st.currentGroup, change)]

\* One iteration of the loop of groupChangesForSuggestions.
groupLoopBody(st, change) ==
    IF shouldSplitForBlankLineInsertion(st.currentGroup, change)
    THEN [groups |-> Append(st.groups, st.currentGroup), currentGroup |-> <<change>>]
    ELSE IF gapLineNumber(change) = <<>> THEN st
    ELSE IF isGapSplit(st.currentGroup, change)
    THEN [groups |-> Append(st.groups, st.currentGroup), currentGroup |-> <<change>>]
    ELSE [groups |-> st.groups, currentGroup |-> Append(st.currentGroup, change)]

\* The push after the loop (index.js 636).
groupLoopEnd(st) ==
    IF Len(st.currentGroup) > 0 THEN Append(st.groups, st.currentGroup) ELSE st.groups

RECURSIVE groupLoop(_, _)
groupLoop(st, changes) ==
    IF Len(changes) = 0 THEN st
    ELSE groupLoop(groupLoopBody(st, Head(changes)), Tail(changes))

groupChangesForSuggestions(changes) ==
    IF Len(changes) = 0 THEN <<>>
    ELSE groupLoopEnd(groupLoop([groups |-> <<>>, currentGroup |-> <<>>], changes))

-----------------------------------------------------------------------------
\* Suggestion synthesizer

getContextLineComesFirst(unchangedLines, addedLines) ==
    IF Len(unchangedLines) = 0 \/ Len(addedLines) = 0 THEN FALSE
    ELSE unchangedLines[1].lineAfter < addedLines[1].lineAfter

getAnchorForAdditions(firstUnchangedLine, unchangedLines, addedLines) ==
    IF getContextLineComesFirst(unchangedLines, addedLines)
    THEN firstUnchangedLine.lineBefore
    ELSE IF firstUnchangedLine.lineBefore - 1 > 1
         THEN firstUnchangedLine.lineBefore - 1
         ELSE 1

\* keptBlanks without the slice(1): every trailing blank is kept.
keptBlanks_all(blanksAfterDeletion) ==
    [k \in 1..Len(blanksAfterDeletion) |-> Blank]

\* blanksAfterDeletion.slice(1).forEach(() => suggestionLines.push(''))
keptBlanks(blanksAfterDeletion) ==
    [k \in 1..(IF Len(blanksAfterDeletion) > 0 THEN Len(blanksAfterDeletion) - 1 ELSE 0)
        |-> Blank]

\* The movement branch (index.js 682-726): <<>> when it does not apply.
movementSuggestion(changes) ==
    LET movement == detectLineMovement(changes)
        unchangedLines == unchangedLinesOf(changes)
    IN IF movement = <<>> THEN <<>>
       ELSE LET deleted == movement[1].deleted
                isBlankAfter(u) == u.lineBefore > deleted.lineBefore /\ u.content = Blank
                b == FirstIndex([k \in 1..Len(unchangedLines) |->
                                    unchangedLines[k].lineBefore < deleted.lineBefore])
                blanksAfterDeletion == SelectSeq(unchangedLines, isBlankAfter)
            IN IF b = 0 THEN <<>>
               ELSE <<[body |-> createSuggestion(Join(
                                    <<unchangedLines[b].content, Blank, deleted.content>>
                                        \o keptBlanks(blanksAfterDeletion), NL)),
                       lineCount |-> 1 + 1 + Len(blanksAfterDeletion)]>>

\* The pure-addition branch (index.js 734-752).
additionSuggestion(changes) ==
    LET addedLines == addedLinesOf(changes)
        unchangedLines == unchangedLinesOf(changes)
        contextLineComesFirst == getContextLineComesFirst(unchangedLines, addedLines)
        suggestionLines ==
            IF contextLineComesFirst /\ Len(unchangedLines) > 0
            THEN <<unchangedLines[1].content>> \o Contents(addedLines)
            ELSE Contents(addedLines)
    IN [body |-> createSuggestion(Join(suggestionLines, NL)),
        lineCount |-> IF contextLineComesFirst THEN 1 ELSE Len(addedLines)]

\* The replacement branch (index.js 754-759).
replacementSuggestion(changes) ==
    [body |-> createSuggestion(Join(Contents(addedLinesOf(changes)), NL)),
     lineCount |-> Len(deletedLinesOf(changes))]

generateSuggestionBody(changes) ==
    LET addedLines == addedLinesOf(changes)
        deletedLines == deletedLinesOf(changes)
    IN IF movementSuggestion(changes) # <<>> THEN movementSuggestion(changes)
       ELSE IF Len(addedLines) = 0
       THEN IF Len(deletedLines) = 0 THEN <<>>
            ELSE <<[body |-> createSuggestion(<<>>), lineCount |-> Len(deletedLines)]>>
       ELSE IF Len(deletedLines) = 0 THEN <<additionSuggestion(changes)>>
       ELSE <<replacementSuggestion(changes)>>

-----------------------------------------------------------------------------
\* Anchor resolver

\* anchorStartLine preferring the context line to the first deleted line.
anchorStartLine_contextFirst(groupChanges, fromStart) ==
    LET unchangedLines == unchangedLinesOf(groupChanges)
        d == FirstIndex([k \in 1..Len(groupChanges) |-> isDeletedLine(groupChanges[k])])
    IN IF Len(unchangedLines) > 0 THEN unchangedLines[1].lineBefore
       ELSE IF d # 0 THEN groupChanges[d].lineBefore
       ELSE fromStart

\* The start line when no movement anchor applies (index.js 801-806).
anchorStartLine(groupChanges, fromStart) ==
    LET addedLines == addedLinesOf(groupChanges)
        unchangedLines == unchangedLinesOf(groupChanges)
        d == FirstIndex([k \in 1..Len(groupChanges) |-> isDeletedLine(groupChanges[k])])
    IN IF d # 0 THEN groupChanges[d].lineBefore
       ELSE IF Len(unchangedLines) > 0 /\ Len(addedLines) > 0
       THEN getAnchorForAdditions(unchangedLines[1], unchangedLines, addedLines)
       ELSE IF Len(unchangedLines) > 0 THEN unchangedLines[1].lineBefore
       ELSE fromStart

calculateLinePosition(groupChanges, lineCount, fromStart) ==
    LET unchangedLines == unchangedLinesOf(groupChanges)
        movement == detectLineMovement(groupChanges)
        startLine ==
            IF /\ movement # <<>>
               /\ Len(unchangedLines) > 0
               /\ unchangedLines[1].lineBefore < movement[1].deleted.lineBefore
            THEN unchangedLines[1].lineBefore
            ELSE anchorStartLine(groupChanges, fromStart)
    IN [startLine |-> startLine, endLine |-> startLine + lineCount - 1]

-----------------------------------------------------------------------------
\* Drafts, keys and the generation pipeline

hasStartLine(comment) == "start_line" \in DOMAIN comment

\* buildCommentDraft adding the range fields from lineCount >= 1 on.
buildCommentDraft_alwaysRange(path, fromStart, group) ==
    LET suggestion == generateSuggestionBody(group)
    IN IF suggestion = <<>> THEN <<>>
       ELSE LET pos == calculateLinePosition(group, suggestion[1].lineCount, fromStart)
            IN <<[path |-> path, body |-> suggestion[1].body, line |-> pos.endLine,
                  start_line |-> pos.startLine, start_side |-> "RIGHT"]>>

buildCommentDraft(path, fromStart, group) ==
    LET suggestion == generateSuggestionBody(group)
    IN IF suggestion = <<>> THEN <<>>
       ELSE LET pos == calculateLinePosition(group, suggestion[1].lineCount, fromStart)
            IN IF suggestion[1].lineCount > 1
               THEN <<[path |-> path, body |-> suggestion[1].body, line |-> pos.endLine,
                       start_line |-> pos.startLine, start_side |-> "RIGHT"]>>
               ELSE <<[path |-> path, body |-> suggestion[1].body, line |-> pos.endLine]>>

generateCommentKey(comment) ==
    comment.path \o <<":">>
        \o (IF "line" \in DOMAIN comment THEN numberToText(comment.line) ELSE <<>>)
        \o <<":">>
        \o (IF hasStartLine(comment) THEN numberToText(comment.start_line) ELSE <<>>)
        \o <<":">> \o comment.body

\* uniqueDrafts with the predicate inverted: the duplicates are the ones kept.
uniqueDrafts_inverted(items, keys) ==
    LET isOld(draft) == generateCommentKey(draft) \in keys
    IN SelectSeq(items, isOld)

\* partition(items, predicate).pass for the predicate of generateReviewComments.
uniqueDrafts(items, keys) ==
    LET isNew(draft) == generateCommentKey(draft) \notin keys
    IN SelectSeq(items, isNew)

RECURSIVE draftsOfGroups(_, _, _)
draftsOfGroups(path, fromStart, gs) ==
    IF Len(gs) = 0 THEN <<>>
    ELSE buildCommentDraft(path, fromStart, Head(gs))
            \o draftsOfGroups(path, fromStart, Tail(gs))

generateReviewComments(c, keys) ==
    uniqueDrafts(draftsOfGroups(Path, c.fromStart, groupChangesForSuggestions(c.changes)),
                 keys)

-----------------------------------------------------------------------------
\* Input chunks

LineContents == {Blank, <<"X">>}
LineKinds == {"UnchangedLine", "DeletedLine", "AddedLine"}
LineSpecs == [type : LineKinds, content : LineContents]

BoundedSeq(S, n) == UNION {[1..k -> S] : k \in 0..n}

\* The numbering a parsed chunk carries: old-file lines count Unchanged and
\* Deleted lines from fromStart, new-file lines count Unchanged and Added lines
\* from toStart.
RECURSIVE numberChanges(_, _, _)
numberChanges(specs, b, a) ==
    IF Len(specs) = 0 THEN <<>>
    ELSE LET s == Head(specs)
         IN IF s.type = "UnchangedLine"
            THEN <<UnchangedLine(s.content, b, a)>> \o numberChanges(Tail(specs), b + 1, a + 1)
            ELSE IF s.type = "DeletedLine"
            THEN <<DeletedLine(s.content, b)>> \o numberChanges(Tail(specs), b + 1, a)
            ELSE <<AddedLine(s.content, a)>> \o numberChanges(Tail(specs), b, a + 1)

parsedChunk(specs, fromStart, toStart) ==
    [changes |-> numberChanges(specs, fromStart, toStart),
     fromStart |-> fromStart, toStart |-> toStart]

ParsedChunks ==
    {parsedChunk(specs, b, a) :
        specs \in BoundedSeq(LineSpecs, MaxLen), b \in 1..MaxOldStart, a \in 1..MaxNewStart}

\* Records whose declared type lacks its numeric coordinate.
MalformedRecords ==
    {[type |-> "AddedLine", content |-> <<"X">>],
     [type |-> "DeletedLine", content |-> <<"X">>],
     [type |-> "UnchangedLine", content |-> <<"X">>, lineBefore |-> 1]}

insertAt(s, k, e) == slice(s, 1, k - 1) \o <<e>> \o slice(s, k, Len(s))

MalformedChunks ==
    {[changes |-> insertAt(numberChanges(specs, 1, 1), k, m), fromStart |-> 1, toStart |-> 1] :
        specs \in BoundedSeq(LineSpecs, MaxMalformedLen),
        k \in 1..(MaxMalformedLen + 1), m \in MalformedRecords}

\* The chunk of the movement example: a line moved down past an inserted blank.
MovementExample ==
    [changes |-> <<UnchangedLine(<<"#", "#", " ", "H">>, 1, 1),
                   DeletedLine(<<"X">>, 4),
                   AddedLine(Blank, 2),
                   UnchangedLine(Blank, 3, 6),
                   AddedLine(<<"X">>, 7)>>,
     fromStart |-> 1, toStart |-> 1]

\* Blank lines inserted after Line A and Line B.
BlankLineExample ==
    parsedChunk(<<[type |-> "UnchangedLine", content |-> <<"A">>],
                  [type |-> "AddedLine", content |-> Blank],
                  [type |-> "UnchangedLine", content |-> <<"B">>],
                  [type |-> "AddedLine", content |-> Blank],
                  [type |-> "UnchangedLine", content |-> <<"C">>]>>, 1, 1)

\* The chunk of a changed file whose old side is empty (hunk header -0,0):
\* only Added lines, the old-file range starting at 0.
EmptyOldFileChunks ==
    {parsedChunk([k \in 1..n |-> [type |-> "AddedLine", content |-> <<"X">>]], 0, 1) :
        n \in 1..MaxLen}

InputChunks ==
    ParsedChunks \cup MalformedChunks \cup EmptyOldFileChunks
        \cup {MovementExample, BlankLineExample}

\* A previously posted comment on another line of the file.
ForeignKey ==
    generateCommentKey([path |-> Path, body |-> createSuggestion(<<"X">>),
                        line |-> MaxLen + MaxOldStart + MaxNewStart])

keysOf(items) == {generateCommentKey(items[k]) : k \in 1..Len(items)}

ExistingKeySets(items) ==
    {S \cup F : S \in SUBSET keysOf(items), F \in {{}, {ForeignKey}}}

\* The validator before run reaches it.
ValidatorIdle ==
    /\ vpc = "idle"
    /\ octokit = [kind |-> "noPulls"]
    /\ initialComments = <<>>
    /\ diffString = <<>>
    /\ comments = <<>>
    /\ reviewRequest = <<>>

\* The orchestrator before run reaches it.
ReviewIdle ==
    /\ rpc = "idle"
    /\ reviewDrafts = <<>>
    /\ batchSize = 1
    /\ batches = <<>>
    /\ batchIndex = 1
    /\ commentIndex = 1
    /\ pending = <<>>
    /\ addedCount = 0
    /\ skippedCount = 0
    /\ batchError = <<>>
    /\ pendingError = <<>>
    /\ calls = <<>>
    /\ outcomes = <<>>
    /\ runResult = <<>>
    /\ raised = <<>>
    /\ inFlight = <<>>
    /\ suspended = FALSE

\* The deduplication before run reaches it.
KeyIdle ==
    /\ kpc = "idle"
    /\ postedComments = <<>>
    /\ candidates = <<>>
    /\ postedKeys = {}
    /\ keptDrafts = <<>>

-----------------------------------------------------------------------------
\* The run: grouping loop, draft building, deduplication, and a second run

Init ==
    /\ chunk \in InputChunks
    /\ pc = "group"
    /\ i = 1
    /\ groups = <<>>
    /\ currentGroup = <<>>
    /\ g = 1
    /\ built = <<>>
    /\ drafts = <<>>
    /\ existingKeys = {}
    /\ result = <<>>
    /\ secondKeys = {}
    /\ secondResult = <<>>
    /\ ValidatorIdle
    /\ ReviewIdle
    /\ KeyIdle

\* One iteration of the loop of groupChangesForSuggestions.
GroupStep ==
    /\ pc = "group"
    /\ i <= Len(chunk.changes)
    /\ LET st == groupLoopBody([groups |-> groups, currentGroup |-> currentGroup],
                               chunk.changes[i])
       IN /\ groups' = st.groups
          /\ currentGroup' = st.currentGroup
    /\ i' = i + 1
    /\ UNCHANGED <<chunk, pc, g, built, drafts, existingKeys, result, secondKeys,
                   secondResult>>
    /\ UNCHANGED <<validatorVars, reviewVars, keyVars>>

\* The loop is over: the open group is pushed, the groups are returned.
GroupEnd ==
    /\ pc = "group"
    /\ i > Len(chunk.changes)
    /\ groups' = IF Len(chunk.changes) = 0 THEN <<>>
                 ELSE groupLoopEnd([groups |-> groups, currentGroup |-> currentGroup])
    /\ pc' = "draft"
    /\ UNCHANGED <<chunk, i, currentGroup, g, built, drafts, existingKeys, result,
                   secondKeys, secondResult>>
    /\ UNCHANGED <<validatorVars, reviewVars, keyVars>>

\* buildCommentDraft for the next group yielded by iterateSuggestionGroups.
DraftStep ==
    /\ pc = "draft"
    /\ g <= Len(groups)
    /\ LET suggestion == generateSuggestionBody(groups[g])
           position ==
               IF suggestion = <<>> THEN <<>>
               ELSE <<calculateLinePosition(groups[g], suggestion[1].lineCount,
                                            chunk.fromStart)>>
           draft == buildCommentDraft(Path, chunk.fromStart, groups[g])
       IN /\ built' = Append(built, [group |-> groups[g], suggestion |-> suggestion,
                                     position |-> position, draft |-> draft])
          /\ drafts' = drafts \o draft
    /\ g' = g + 1
    /\ UNCHANGED <<chunk, pc, i, groups, currentGroup, existingKeys, result, secondKeys,
                   secondResult>>
    /\ UNCHANGED <<validatorVars, reviewVars, keyVars>>

\* The partition against existingCommentKeys; the unique drafts are returned.
Deduplicate ==
    /\ pc = "draft"
    /\ g > Len(groups)
    /\ \E keys \in ExistingKeySets(drafts) :
          /\ existingKeys' = keys
          /\ result' = uniqueDrafts(drafts, keys)
    /\ pc' = "done"
    /\ UNCHANGED <<chunk, i, groups, currentGroup, g, built, drafts, secondKeys,
                   secondResult>>
    /\ UNCHANGED <<validatorVars, reviewVars, keyVars>>

\* generateReviewComments again on the same diff, the first run's drafts having
\* been posted and read back as existing comments.
SecondRun ==
    /\ pc = "done"
    /\ secondKeys' = existingKeys \cup keysOf(result)
    /\ secondResult' = generateReviewComments(chunk, secondKeys')
    /\ pc' = "rerun"
    /\ UNCHANGED <<chunk, i, groups, currentGroup, g, built, drafts, existingKeys,
                   result>>
    /\ UNCHANGED <<validatorVars, reviewVars, keyVars>>

Next == GroupStep \/ GroupEnd \/ DraftStep \/ Deduplicate \/ SecondRun

Spec == Init /\ [][Next]_vars

-----------------------------------------------------------------------------
\* Applying suggestions to a file (the Suggestion Application test)

\* suggestion.start_line ?? suggestion.line
startOf(suggestion) ==
    IF hasStartLine(suggestion) THEN suggestion.start_line ELSE suggestion.line

\* The capture group of the fence pattern, split into lines.
suggestionLinesOf(body) ==
    LET content == slice(body, 3, Len(body) - 2)
    IN IF content = <<>> THEN <<>> ELSE Split(content, NL)

applySuggestion(lines, suggestion) ==
    slice(lines, 1, startOf(suggestion) - 1)
        \o suggestionLinesOf(suggestion.body)
        \o slice(lines, suggestion.line + 1, Len(lines))

\* [...suggestions].sort((a, b) => bStart - aStart): stable, descending start.
RECURSIVE sortBottomToTop(_)
sortBottomToTop(suggestions) ==
    IF Len(suggestions) = 0 THEN <<>>
    ELSE LET last == suggestions[Len(suggestions)]
             sorted == sortBottomToTop(slice(suggestions, 1, Len(suggestions) - 1))
             notBelow(x) == startOf(x) >= startOf(last)
             below(x) == startOf(x) < startOf(last)
         IN SelectSeq(sorted, notBelow) \o <<last>> \o SelectSeq(sorted, below)

RECURSIVE applyInOrder(_, _)
applyInOrder(lines, suggestions) ==
    IF Len(suggestions) = 0 THEN lines
    ELSE applyInOrder(applySuggestion(lines, Head(suggestions)), Tail(suggestions))

applySuggestions(lines, suggestions) == applyInOrder(lines, sortBottomToTop(suggestions))

-----------------------------------------------------------------------------
\* Diff-boundary validator

OtherPath == <<"h">>

\* The accept prefix test /^diff --git / on the response text, a sequence of
\* tokens of which the first is the text's beginning.
DiffGitPrefix == "diff --git "
startsWithDiffGit(text) == Len(text) > 0 /\ text[1] = DiffGitPrefix

\* fetchCanonicalDiff: <<>> for null, otherwise the response data.
fetchCanonicalDiff(client) ==
    IF client.kind \in {"noPulls", "noGet"} THEN <<>>
    ELSE IF client.kind = "throws" THEN <<>>
    ELSE IF ~client.data.isString \/ ~startsWithDiffGit(client.data.text) THEN <<>>
    ELSE <<client.data>>

\* parseGitDiff(diffString): <<>> when it throws, otherwise the parsed diff the
\* text stands for.
parseGitDiff(data) == data.parsed

\* The lineAfter values a file contributes (index.js 970-979).
rightSideLines(file) ==
    UNION {{file.chunks[c].changes[k].lineAfter :
                k \in {h \in 1..Len(file.chunks[c].changes) :
                          \/ isAddedLine(file.chunks[c].changes[h])
                          \/ isUnchangedLine(file.chunks[c].changes[h])}} :
            c \in {n \in 1..Len(file.chunks) : file.chunks[n].type = "Chunk"}}

\* Object.fromEntries over the ChangedFile and AddedFile entries: the last
\* entry of a path is the one kept.
buildRightSideAnchors(parsedDiff) ==
    LET isAnchorFile(file) == file.type = "ChangedFile" \/ file.type = "AddedFile"
        files == SelectSeq(parsedDiff.files, isAnchorFile)
    IN [p \in {files[k].path : k \in 1..Len(files)} |->
           rightSideLines(files[LastIndex([k \in 1..Len(files) |-> files[k].path = p])])]

isValidSuggestion(comment, anchors) ==
    IF comment.path \notin DOMAIN anchors THEN FALSE
    ELSE IF comment.line \notin anchors[comment.path] THEN FALSE
    ELSE IF hasStartLine(comment) /\ comment.start_line \notin anchors[comment.path]
    THEN FALSE
    ELSE TRUE

\* partition(comments, isValidSuggestion).pass
validSuggestions(items, anchors) ==
    LET isValid(comment) == isValidSuggestion(comment, anchors)
    IN SelectSeq(items, isValid)

\* filterSuggestionsInPullRequestDiff returning the drafts on a parse failure
\* replaced by one returning none.
filterAfterFetch_failsClosed(items, data) ==
    LET parsedPullRequestDiff == parseGitDiff(data)
    IN IF parsedPullRequestDiff = <<>> THEN <<>>
       ELSE validSuggestions(items, buildRightSideAnchors(parsedPullRequestDiff[1]))

\* filterSuggestionsInPullRequestDiff after a diff string was obtained
\* (index.js 1057-1073).
filterAfterFetch(items, data) ==
    LET parsedPullRequestDiff == parseGitDiff(data)
    IN IF parsedPullRequestDiff = <<>> THEN items
       ELSE validSuggestions(items, buildRightSideAnchors(parsedPullRequestDiff[1]))

filterSuggestionsInPullRequestDiff(client, items) ==
    LET fetched == fetchCanonicalDiff(client)
    IN IF fetched = <<>> THEN items ELSE filterAfterFetch(items, fetched[1])

-----------------------------------------------------------------------------
\* Inputs of the validator

SuggestionX == createSuggestion(<<"X">>)

\* Drafts of the shape buildCommentDraft gives: a line, or a range ending at it.
ValidatorDrafts ==
    {[path |-> Path, body |-> SuggestionX, line |-> l] : l \in 1..MaxLine}
        \cup {[path |-> Path, body |-> SuggestionX, line |-> l, start_line |-> f,
               start_side |-> "RIGHT"] : f \in 1..MaxLine, l \in 1..MaxLine}
        \cup {[path |-> OtherPath, body |-> SuggestionX, line |-> 1]}

ValidatorDraftLists ==
    {cs \in BoundedSeq(ValidatorDrafts, MaxComments) :
        \A k \in 1..Len(cs) : hasStartLine(cs[k]) => cs[k].start_line < cs[k].line}

\* One hunk of the authoritative diff.
AnchorChunks ==
    {[type |-> "Chunk", changes |-> numberChanges(specs, 1, a)] :
        specs \in BoundedSeq([type : LineKinds, content : {<<"X">>}], MaxDiffLen),
        a \in 1..MaxDiffLen}
        \cup {[type |-> "BinaryFilesChunk"]}

onlyOfType(c, t) ==
    "changes" \in DOMAIN c => \A k \in 1..Len(c.changes) : c.changes[k].type = t

\* The entries parse-git-diff gives for the file: changed, added (all lines
\* Added), deleted (all lines Deleted), or renamed (which carries pathBefore
\* and pathAfter, not path).
FileEntries(p, c) ==
    {[type |-> "ChangedFile", path |-> p, chunks |-> <<c>>],
     [type |-> "RenamedFile", pathBefore |-> <<"g">>, pathAfter |-> p, chunks |-> <<c>>]}
        \cup (IF onlyOfType(c, "AddedLine")
              THEN {[type |-> "AddedFile", path |-> p, chunks |-> <<c>>]} ELSE {})
        \cup (IF onlyOfType(c, "DeletedLine")
              THEN {[type |-> "DeletedFile", path |-> p, chunks |-> <<c>>]} ELSE {})

OtherFile ==
    [type |-> "ChangedFile", path |-> OtherPath,
     chunks |-> <<[type |-> "Chunk", changes |-> <<UnchangedLine(<<"X">>, 1, 1)>>]>>]

AuthoritativeDiffs ==
    {[files |-> <<file, OtherFile>>] :
        file \in UNION {FileEntries(Path, c) : c \in AnchorChunks}}

\* What the client does on pulls.get with the diff media type.
Clients ==
    {[kind |-> "noPulls"], [kind |-> "noGet"], [kind |-> "throws"],
     [kind |-> "returns", data |-> [isString |-> FALSE]],
     [kind |-> "returns", data |-> [isString |-> TRUE, text |-> <<>>, parsed |-> <<>>]],
     [kind |-> "returns",
      data |-> [isString |-> TRUE, text |-> <<"Not Found">>, parsed |-> <<>>]],
     [kind |-> "returns",
      data |-> [isString |-> TRUE, text |-> <<DiffGitPrefix, "a/f b/f">>,
                parsed |-> <<>>]]}
        \cup {[kind |-> "returns",
               data |-> [isString |-> TRUE, text |-> <<DiffGitPrefix, "a/f b/f">>,
                         parsed |-> <<d>>]] : d \in AuthoritativeDiffs}

-----------------------------------------------------------------------------
\* run from the validator on (index.js 1103-1124)

\* The compiler when the model starts after it.
CompilerIdle ==
    /\ chunk = parsedChunk(<<>>, 1, 1)
    /\ pc = "idle"
    /\ i = 1
    /\ groups = <<>>
    /\ currentGroup = <<>>
    /\ g = 1
    /\ built = <<>>
    /\ drafts = <<>>
    /\ existingKeys = {}
    /\ result = <<>>
    /\ secondKeys = {}
    /\ secondResult = <<>>

ValidatorInit ==
    /\ CompilerIdle
    /\ vpc = "fetch"
    /\ octokit \in Clients
    /\ initialComments \in ValidatorDraftLists
    /\ diffString = <<>>
    /\ comments = <<>>
    /\ reviewRequest = <<>>
    /\ ReviewIdle
    /\ KeyIdle

\* fetchCanonicalDiff and the early return of the validator.
FetchDiff ==
    /\ vpc = "fetch"
    /\ diffString' = fetchCanonicalDiff(octokit)
    /\ IF diffString' = <<>>
       THEN comments' = initialComments /\ vpc' = "filtered"
       ELSE comments' = comments /\ vpc' = "parse"
    /\ UNCHANGED <<octokit, initialComments, reviewRequest>>
    /\ UNCHANGED <<compilerVars, reviewVars, keyVars>>

\* parseGitDiff, buildRightSideAnchors and the partition.
ParseAndFilter ==
    /\ vpc = "parse"
    /\ comments' = filterAfterFetch(initialComments, diffString[1])
    /\ vpc' = "filtered"
    /\ UNCHANGED <<octokit, initialComments, diffString, reviewRequest>>
    /\ UNCHANGED <<compilerVars, reviewVars, keyVars>>

\* !comments.length
hasNoComments_never(items) == FALSE

hasNoComments(items) == Len(items) = 0

\* The variables of the orchestrator other than the value run returns.
reviewVarsButResult ==
    <<rpc, reviewDrafts, batchSize, batches, batchIndex, commentIndex, pending, addedCount,
      skippedCount, batchError, pendingError, calls, outcomes, raised, inFlight, suspended>>

\* if (!comments.length) return { comments: [], reviewCreated: false }
ReturnEmpty ==
    /\ vpc = "filtered"
    /\ hasNoComments(comments)
    /\ vpc' = "returned"
    /\ runResult' = <<[comments |-> <<>>, reviewCreated |-> FALSE]>>
    /\ UNCHANGED <<octokit, initialComments, diffString, comments, reviewRequest>>
    /\ UNCHANGED <<compilerVars, reviewVarsButResult, keyVars>>

\* octokit.pulls.createReview({ ..., comments }) and
\* return { comments, reviewCreated: true }
CreateReview ==
    /\ vpc = "filtered"
    /\ ~hasNoComments(comments)
    /\ reviewRequest' = <<comments>>
    /\ vpc' = "submitted"
    /\ runResult' = <<[comments |-> comments, reviewCreated |-> TRUE]>>
    /\ UNCHANGED <<octokit, initialComments, diffString, comments>>
    /\ UNCHANGED <<compilerVars, reviewVarsButResult, keyVars>>

ValidatorNext == FetchDiff \/ ParseAndFilter \/ ReturnEmpty \/ CreateReview

ValidatorSpec == ValidatorInit /\ [][ValidatorNext]_vars

-----------------------------------------------------------------------------
\* Submission orchestrator: error classes

LineOutsideText == "line must be part of the diff"
PendingText == "only have one pending review"

\* The i flag of the two patterns: the tokens of a message in lower case.
lowerCase(token) ==
    IF token = "Line must be part of the diff" THEN LineOutsideText ELSE token

\* pattern.test(String(err.message)) for the pattern of a phrase.
messageMatches(message, phrase) ==
    \E n \in 1..Len(message) : lowerCase(message[n]) = phrase

\* isLineOutsideDiffError not looking at the status.
isLineOutsideDiffError_anyStatus(err) ==
    /\ err.isRequestError
    /\ messageMatches(err.message, LineOutsideText)

isLineOutsideDiffError(err) ==
    /\ err.isRequestError
    /\ err.status = 422
    /\ messageMatches(err.message, LineOutsideText)

isDuplicatePendingReviewError(err) ==
    /\ err.isRequestError
    /\ err.status = 422
    /\ messageMatches(err.message, PendingText)

\* The catch of createReview (part_003 520-521): FALSE rethrows.
entersSalvage(err) == isLineOutsideDiffError(err) \/ isDuplicatePendingReviewError(err)

\* createReviewComment giving up on the known rejection instead of skipping.
createReviewCommentResult_throwsOnSkip(response) ==
    IF response = <<>> THEN "created" ELSE "throws"

\* createReviewComment: the created comment, null for the known rejection, or
\* a throw; response is <<>> for a success and <<err>> for a failure.
createReviewCommentResult(response) ==
    IF response = <<>> THEN "created"
    ELSE IF isLineOutsideDiffError(response[1]) THEN "skipped"
    ELSE "throws"

\* The end of the salvage submitting the review although nothing was added.
salvageSubmits_always(count) == TRUE

\* if (added === 0) { delete, return } else submit (part_003 545-553)
salvageSubmits(count) == count # 0

\* What createReview returns at the end of a salvage (part_003 550, 559).
salvageResult(items, count) ==
    IF count = 0 THEN [comments |-> <<>>, reviewCreated |-> FALSE]
    ELSE [comments |-> items, reviewCreated |-> TRUE]

\* Splitting the drafts into batches of at most size drafts each.
batchComments_dropsRemainder(items, size) ==
    [j \in 1..(Len(items) \div size) |-> slice(items, (j - 1) * size + 1, j * size)]

batchComments(items, size) ==
    [j \in 1..((Len(items) + size - 1) \div size) |->
        slice(items, (j - 1) * size + 1, j * size)]

\* The aggregate over the batches: every batch's comments, in batch order, and
\* whether any batch produced a review.
RECURSIVE concatComments(_)
concatComments(results) ==
    IF Len(results) = 0 THEN <<>>
    ELSE Head(results).comments \o concatComments(Tail(results))

aggregateResult(results) ==
    [comments |-> concatComments(results),
     reviewCreated |-> \E j \in 1..Len(results) : results[j].reviewCreated]

-----------------------------------------------------------------------------
\* Submission orchestrator: the review API as the run sees it

\* A response is <<>> (the call succeeded) or <<err>> (it threw err).
Messages ==
    {<<"Validation Failed: ", LineOutsideText>>,
     <<"Line must be part of the diff">>,
     <<"User can ", PendingText, " per pull request">>,
     <<"API rate limit exceeded">>}

RequestErrors ==
    {[isRequestError |-> TRUE, status |-> st, message |-> m] :
        st \in {422, 429}, m \in Messages}

\* Errors that are no RequestError carry no status.
PlainErrors ==
    {[isRequestError |-> FALSE, message |-> <<"fetch failed">>],
     [isRequestError |-> FALSE, message |-> <<"Validation Failed: ", LineOutsideText>>]}

Errors == RequestErrors \cup PlainErrors

Responses == {<<>>} \cup {<<err>> : err \in Errors}

\* What pulls.listReviews gives: a throw, or the reviews of the pull request.
Listings ==
    {[throws |-> <<[isRequestError |-> TRUE, status |-> 429,
                    message |-> <<"API rate limit exceeded">>]>>, reviews |-> <<>>],
     [throws |-> <<>>, reviews |-> <<>>],
     [throws |-> <<>>, reviews |-> <<[id |-> 7, state |-> "COMMENTED"]>>],
     [throws |-> <<>>, reviews |-> <<[id |-> 7, state |-> "COMMENTED"],
                                     [id |-> 8, state |-> "PENDING"]>>]}

Call(op, batch, comment, review, ok) ==
    [op |-> op, batch |-> batch, comment |-> comment, review |-> review, ok |-> ok]

\* The comments of a batch the API accepted one by one.
attachedComments(log, batch, items) ==
    LET accepted(n) ==
            \E c \in 1..Len(log) :
                /\ log[c].op = "createReviewComment"
                /\ log[c].batch = batch
                /\ log[c].comment = n
                /\ log[c].ok
        RECURSIVE pick(_)
        pick(n) == IF n > Len(items) THEN <<>>
                   ELSE (IF accepted(n) THEN <<items[n]>> ELSE <<>>) \o pick(n + 1)
    IN pick(1)

ReviewDraftLists ==
    {[n \in 1..m |-> [path |-> Path, body |-> SuggestionX, line |-> n]] : m \in 0..MaxDrafts}

-----------------------------------------------------------------------------
\* Submission orchestrator: run and createReview

\* A request to the review API: the operation, the batch and the comment it is
\* for (0 when it is for no single comment).
Request(op, batch, comment) == [op |-> op, batch |-> batch, comment |-> comment]

\* Whether run waits for the answer of a call before it goes on: every call
\* of createReview is awaited (part_003 419, 434, 442, 470, 506, 552).
awaits_attachesInParallel(op) == op # "createReviewComment"

awaits(op) == TRUE

\* After an iteration of for (const comment of comments) the next comment is
\* in hand, whatever became of this one (part_003 536-544).
nextCommentIndex_retriesSkipped(index, created) ==
    IF created = "skipped" THEN index ELSE index + 1

nextCommentIndex(index, created) == index + 1

\* The call createReview makes at its position: <<>> where it makes none.
nextRequest ==
    IF rpc = "batch" THEN <<Request("createReview", batchIndex, 0)>>
    ELSE IF rpc = "pending" THEN <<Request("createPendingReview", batchIndex, 0)>>
    ELSE IF rpc = "list" THEN <<Request("listReviews", batchIndex, 0)>>
    ELSE IF rpc # "attach" THEN <<>>
    ELSE IF commentIndex <= Len(batches[batchIndex])
    THEN <<Request("createReviewComment", batchIndex, commentIndex)>>
    ELSE IF salvageSubmits(addedCount) THEN <<Request("submitReview", batchIndex, 0)>>
    ELSE <<Request("deletePendingReview", batchIndex, 0)>>

\* The requests in flight without the oldest one equal to req.
RECURSIVE withoutRequest(_, _)
withoutRequest(requests, req) ==
    IF Len(requests) = 0 THEN <<>>
    ELSE IF Head(requests) = req THEN Tail(requests)
    ELSE <<Head(requests)>> \o withoutRequest(Tail(requests), req)

\* The API answers the request req and run resumes after its await.
answered(req) ==
    /\ \E n \in 1..Len(inFlight) : inFlight[n] = req
    /\ inFlight' = withoutRequest(inFlight, req)
    /\ suspended' = FALSE

ReviewInit ==
    /\ CompilerIdle
    /\ ValidatorIdle
    /\ KeyIdle
    /\ rpc = "start"
    /\ batchSize \in 1..BatchSize
    /\ reviewDrafts \in {items \in ReviewDraftLists :
                            Len(batchComments(items, batchSize)) <= MaxBatches}
    /\ batches = <<>>
    /\ batchIndex = 1
    /\ commentIndex = 1
    /\ pending = <<>>
    /\ addedCount = 0
    /\ skippedCount = 0
    /\ batchError = <<>>
    /\ pendingError = <<>>
    /\ calls = <<>>
    /\ outcomes = <<>>
    /\ runResult = <<>>
    /\ raised = <<>>
    /\ inFlight = <<>>
    /\ suspended = FALSE

\* if (comments.length === 0) return { comments: [], reviewCreated: false }
RunNoComments ==
    /\ rpc = "start"
    /\ Len(reviewDrafts) = 0
    /\ runResult' = <<[comments |-> <<>>, reviewCreated |-> FALSE]>>
    /\ rpc' = "done"
    /\ UNCHANGED <<reviewDrafts, batchSize, batches, batchIndex, commentIndex, pending, addedCount,
                   skippedCount, batchError, pendingError, calls, outcomes, raised>>
    /\ UNCHANGED <<inFlight, suspended>>
    /\ UNCHANGED <<compilerVars, validatorVars, keyVars>>

\* The drafts are split into batches; the first batch is in hand.
StartBatches ==
    /\ rpc = "start"
    /\ Len(reviewDrafts) > 0
    /\ batches' = batchComments(reviewDrafts, batchSize)
    /\ rpc' = "batch"
    /\ UNCHANGED <<reviewDrafts, batchSize, batchIndex, commentIndex, pending, addedCount,
                   skippedCount, batchError, pendingError, calls, outcomes, runResult,
                   raised>>
    /\ UNCHANGED <<inFlight, suspended>>
    /\ UNCHANGED <<compilerVars, validatorVars, keyVars>>

\* createReview sends the call of its position and waits at the await.
SendRequest ==
    /\ ~suspended
    /\ nextRequest # <<>>
    /\ inFlight' = Append(inFlight, nextRequest[1])
    /\ suspended' = awaits(nextRequest[1].op)
    /\ UNCHANGED <<rpc, reviewDrafts, batchSize, batches, batchIndex, commentIndex, pending,
                   addedCount, skippedCount, batchError, pendingError, calls, outcomes,
                   runResult, raised>>
    /\ UNCHANGED <<compilerVars, validatorVars, keyVars>>

\* createReviewWithComments and the catch that follows it (part_003 516-521).
CreateReviewWithComments ==
    /\ rpc = "batch"
    /\ answered(Request("createReview", batchIndex, 0))
    /\ \E response \in Responses :
          /\ calls' = Append(calls, Call("createReview", batchIndex, 0, 0, response = <<>>))
          /\ batchError' = response
          /\ IF response = <<>>
             THEN /\ outcomes' = Append(outcomes,
                        [result |-> [comments |-> batches[batchIndex],
                                     reviewCreated |-> TRUE],
                         delivered |-> batches[batchIndex],
                         kind |-> "accepted"])
                  /\ rpc' = "next"
                  /\ raised' = raised
             ELSE IF entersSalvage(response[1])
             THEN /\ rpc' = "pending"
                  /\ UNCHANGED <<outcomes, raised>>
             ELSE /\ raised' = response
                  /\ rpc' = "failed"
                  /\ outcomes' = outcomes
    /\ UNCHANGED <<reviewDrafts, batchSize, batches, batchIndex, commentIndex, pending, addedCount,
                   skippedCount, pendingError, runResult>>
    /\ UNCHANGED <<compilerVars, validatorVars, keyVars>>

\* ensurePendingReview: the createReview without comments (part_003 431-441).
EnsurePendingReview ==
    /\ rpc = "pending"
    /\ answered(Request("createPendingReview", batchIndex, 0))
    /\ \E response \in Responses :
          /\ calls' = Append(calls, Call("createPendingReview", batchIndex, 0, batchIndex,
                                         response = <<>>))
          /\ IF response = <<>>
             THEN /\ pending' = <<[id |-> batchIndex, reused |-> FALSE]>>
                  /\ rpc' = "attach"
                  /\ UNCHANGED <<pendingError, raised>>
             ELSE IF ~isDuplicatePendingReviewError(response[1])
             THEN /\ raised' = response
                  /\ rpc' = "failed"
                  /\ UNCHANGED <<pending, pendingError>>
             ELSE /\ pendingError' = response
                  /\ rpc' = "list"
                  /\ UNCHANGED <<pending, raised>>
    /\ commentIndex' = 1
    /\ addedCount' = 0
    /\ skippedCount' = 0
    /\ UNCHANGED <<reviewDrafts, batchSize, batches, batchIndex, batchError, outcomes, runResult>>
    /\ UNCHANGED <<compilerVars, validatorVars, keyVars>>

\* ensurePendingReview: listReviews and the reuse of a pending review
\* (part_003 442-459).
ListReviews ==
    /\ rpc = "list"
    /\ answered(Request("listReviews", batchIndex, 0))
    /\ \E listing \in Listings :
          LET found == FirstIndex([n \in 1..Len(listing.reviews) |->
                                      listing.reviews[n].state = "PENDING"])
          IN /\ calls' = Append(calls, Call("listReviews", batchIndex, 0, 0,
                                            listing.throws = <<>>))
             /\ IF listing.throws # <<>>
                THEN raised' = listing.throws /\ rpc' = "failed" /\ pending' = pending
                ELSE IF found = 0
                THEN raised' = pendingError /\ rpc' = "failed" /\ pending' = pending
                ELSE /\ pending' = <<[id |-> listing.reviews[found].id, reused |-> TRUE]>>
                     /\ rpc' = "attach"
                     /\ raised' = raised
    /\ UNCHANGED <<reviewDrafts, batchSize, batches, batchIndex, commentIndex, addedCount,
                   skippedCount, batchError, pendingError, outcomes, runResult>>
    /\ UNCHANGED <<compilerVars, validatorVars, keyVars>>

\* One iteration of the salvage loop: createReviewComment (part_003 536-544).
CreateReviewComment ==
    /\ rpc = "attach"
    /\ commentIndex <= Len(batches[batchIndex])
    /\ answered(Request("createReviewComment", batchIndex, commentIndex))
    /\ \E response \in Responses :
          LET created == createReviewCommentResult(response)
          IN /\ calls' = Append(calls, Call("createReviewComment", batchIndex, commentIndex,
                                            pending[1].id, response = <<>>))
             /\ IF created = "throws"
                THEN /\ raised' = response
                     /\ rpc' = "failed"
                     /\ UNCHANGED <<commentIndex, addedCount, skippedCount>>
                ELSE /\ addedCount' = IF created = "created" THEN addedCount + 1
                                      ELSE addedCount
                     /\ skippedCount' = IF created = "created" THEN skippedCount
                                        ELSE skippedCount + 1
                     /\ commentIndex' = nextCommentIndex(commentIndex, created)
                     /\ UNCHANGED <<rpc, raised>>
    /\ UNCHANGED <<reviewDrafts, batchSize, batches, batchIndex, pending, batchError, pendingError,
                   outcomes, runResult>>
    /\ UNCHANGED <<compilerVars, validatorVars, keyVars>>

\* Nothing was added: deletePendingReview, whose failure is only logged, and
\* the return (part_003 545-551).
DeletePendingReview ==
    /\ rpc = "attach"
    /\ commentIndex > Len(batches[batchIndex])
    /\ ~salvageSubmits(addedCount)
    /\ answered(Request("deletePendingReview", batchIndex, 0))
    /\ \E response \in Responses :
          calls' = Append(calls, Call("deletePendingReview", batchIndex, 0, pending[1].id,
                                      response = <<>>))
    /\ outcomes' = Append(outcomes,
                          [result |-> salvageResult(batches[batchIndex], addedCount),
                           delivered |-> <<>>,
                           kind |-> "dropped"])
    /\ rpc' = "next"
    /\ UNCHANGED <<reviewDrafts, batchSize, batches, batchIndex, commentIndex, pending, addedCount,
                   skippedCount, batchError, pendingError, runResult, raised>>
    /\ UNCHANGED <<compilerVars, validatorVars, keyVars>>

\* Something was added: submitReview and the return (part_003 552-559).
SubmitReview ==
    /\ rpc = "attach"
    /\ commentIndex > Len(batches[batchIndex])
    /\ salvageSubmits(addedCount)
    /\ answered(Request("submitReview", batchIndex, 0))
    /\ \E response \in Responses :
          /\ calls' = Append(calls, Call("submitReview", batchIndex, 0, pending[1].id,
                                         response = <<>>))
          /\ IF response = <<>>
             THEN /\ outcomes' = Append(outcomes,
                        [result |-> salvageResult(batches[batchIndex], addedCount),
                         delivered |-> attachedComments(calls, batchIndex,
                                                        batches[batchIndex]),
                         kind |-> "salvaged"])
                  /\ rpc' = "next"
                  /\ raised' = raised
             ELSE /\ raised' = response
                  /\ rpc' = "failed"
                  /\ outcomes' = outcomes
    /\ UNCHANGED <<reviewDrafts, batchSize, batches, batchIndex, commentIndex, pending, addedCount,
                   skippedCount, batchError, pendingError, runResult>>
    /\ UNCHANGED <<compilerVars, validatorVars, keyVars>>

\* The batch in hand has its outcome: the next batch is taken in hand.
NextBatch ==
    /\ rpc = "next"
    /\ batchIndex < Len(batches)
    /\ batchIndex' = batchIndex + 1
    /\ rpc' = "batch"
    /\ commentIndex' = 1
    /\ pending' = <<>>
    /\ addedCount' = 0
    /\ skippedCount' = 0
    /\ batchError' = <<>>
    /\ pendingError' = <<>>
    /\ UNCHANGED <<reviewDrafts, batchSize, batches, calls, outcomes, runResult, raised>>
    /\ UNCHANGED <<inFlight, suspended>>
    /\ UNCHANGED <<compilerVars, validatorVars, keyVars>>

\* The last batch has its outcome: run returns the aggregate.
RunReturn ==
    /\ rpc = "next"
    /\ batchIndex = Len(batches)
    /\ runResult' = <<aggregateResult([j \in 1..Len(outcomes) |-> outcomes[j].result])>>
    /\ rpc' = "done"
    /\ UNCHANGED <<reviewDrafts, batchSize, batches, batchIndex, commentIndex, pending, addedCount,
                   skippedCount, batchError, pendingError, calls, outcomes, raised>>
    /\ UNCHANGED <<inFlight, suspended>>
    /\ UNCHANGED <<compilerVars, validatorVars, keyVars>>

ReviewNext ==
    \/ RunNoComments
    \/ StartBatches
    \/ SendRequest
    \/ CreateReviewWithComments
    \/ EnsurePendingReview
    \/ ListReviews
    \/ CreateReviewComment
    \/ DeletePendingReview
    \/ SubmitReview
    \/ NextBatch
    \/ RunReturn

ReviewSpec == ReviewInit /\ [][ReviewNext]_vars

\* The run when every API call is answered and every step of run that can be
\* taken is taken.
ReviewLiveSpec == ReviewInit /\ [][ReviewNext]_vars /\ WF_vars(ReviewNext)

-----------------------------------------------------------------------------
\* Deduplication against the posted comments: the keys of run

\* Paths of changed files: a plain name, and names with a colon in them.
KeyPaths == {Path} \cup {Path \o <<":">> \o numberToText(n) : n \in 1..MaxKeyLine}

\* Drafts of the shape buildCommentDraft gives, on any of the paths.
KeyDrafts ==
    {[path |-> p, body |-> SuggestionX, line |-> l] : p \in KeyPaths, l \in 1..MaxKeyLine}
        \cup {d \in [path : KeyPaths, body : {SuggestionX}, line : 1..MaxKeyLine,
                      start_line : 1..MaxKeyLine, start_side : {"RIGHT"}] :
                    d.start_line < d.line}

\* Bodies of posted comments: a suggestion of this action, and what a reviewer
\* wrote around one.
PostedBodies ==
    {SuggestionX, <<":">> \o SuggestionX, <<"1", ":">> \o SuggestionX, <<"X">>}

\* Review comments as the API lists them: line and start_line are null on an
\* outdated comment, start_line is null on a single-line comment.
PostedComments ==
    {[path |-> p, body |-> t] : p \in KeyPaths, t \in PostedBodies}
        \cup {[path |-> p, body |-> t, line |-> l] :
                    p \in KeyPaths, t \in PostedBodies, l \in 1..MaxKeyLine}
        \cup {c \in [path : KeyPaths, body : PostedBodies, line : 1..MaxKeyLine,
                      start_line : 1..MaxKeyLine] :
                    c.start_line < c.line}

KeyInit ==
    /\ CompilerIdle
    /\ ValidatorIdle
    /\ ReviewIdle
    /\ kpc = "list"
    /\ postedComments \in {<<>>} \cup {<<c>> : c \in PostedComments}
    /\ candidates \in {<<d>> : d \in KeyDrafts}
    /\ postedKeys = {}
    /\ keptDrafts = <<>>

\* new Set(existingComments.map(generateCommentKey))
CollectKeys ==
    /\ kpc = "list"
    /\ postedKeys' = keysOf(postedComments)
    /\ kpc' = "keyed"
    /\ UNCHANGED <<postedComments, candidates, keptDrafts>>
    /\ UNCHANGED <<compilerVars, validatorVars, reviewVars>>

\* The filter of generateReviewComments on the keys of the posted comments.
FilterDrafts ==
    /\ kpc = "keyed"
    /\ keptDrafts' = uniqueDrafts(candidates, postedKeys)
    /\ kpc' = "filtered"
    /\ UNCHANGED <<postedComments, candidates, postedKeys>>
    /\ UNCHANGED <<compilerVars, validatorVars, reviewVars>>

KeyNext == CollectKeys \/ FilterDrafts

KeySpec == KeyInit /\ [][KeyNext]_vars

-----------------------------------------------------------------------------
\* Vocabulary of the properties

allTyped(changes) ==
    \A k \in 1..Len(changes) :
        isAddedLine(changes[k]) \/ isDeletedLine(changes[k]) \/ isUnchangedLine(changes[k])

\* The chunk is numbered as a parsed chunk is.
wellNumbered(c) ==
    /\ allTyped(c.changes)
    /\ c.changes = numberChanges([k \in 1..Len(c.changes) |->
                                     [type |-> c.changes[k].type,
                                      content |-> c.changes[k].content]],
                                 c.fromStart, c.toStart)

\* The shape a line diff gives a hunk: in a run of changed lines the deletions
\* come first, and no deleted line of the run equals an added line of it.
diffShaped(changes) ==
    /\ \A k \in 1..(Len(changes) - 1) :
          ~(isAddedLine(changes[k]) /\ isDeletedLine(changes[k + 1]))
    /\ \A k, l \in 1..Len(changes) :
          (/\ k < l
           /\ isDeletedLine(changes[k])
           /\ isAddedLine(changes[l])
           /\ \A h \in k..l : ~isUnchangedLine(changes[h]))
              => changes[k].content # changes[l].content

oldLines(changes) ==
    LET inOld(c) == isUnchangedLine(c) \/ isDeletedLine(c)
    IN Contents(SelectSeq(changes, inOld))

newLines(changes) ==
    LET inNew(c) == isUnchangedLine(c) \/ isAddedLine(c)
    IN Contents(SelectSeq(changes, inNew))

RECURSIVE flatten(_)
flatten(gs) == IF Len(gs) = 0 THEN <<>> ELSE Head(gs) \o flatten(Tail(gs))

grouped == pc # "group"
generated == pc \in {"done", "rerun"} /\ existingKeys = {}
atChange == pc = "group" /\ i <= Len(chunk.changes)

\* k Deleted lines immediately followed by m Added lines, Unchanged context around.
contiguousReplacement(changes) ==
    \E d, a \in 1..Len(changes) :
        /\ d < a
        /\ \A k \in 1..Len(changes) :
              /\ k < d => isUnchangedLine(changes[k])
              /\ (d <= k /\ k < a) => isDeletedLine(changes[k])
              /\ k >= a => (isAddedLine(changes[k]) \/ isUnchangedLine(changes[k]))
              /\ (k > a /\ isAddedLine(changes[k])) => isAddedLine(changes[k - 1])
        /\ isAddedLine(changes[a])

blanks(n) == [k \in 1..n |-> Blank]

\* The parsed authoritative diff, when the client returned one: <<>> otherwise.
authoritativeDiff ==
    IF fetchCanonicalDiff(octokit) = <<>> THEN <<>>
    ELSE parseGitDiff(fetchCanonicalDiff(octokit)[1])

\* The path of a file entry in the new tree.
newPathOf(file) == IF "path" \in DOMAIN file THEN file.path ELSE file.pathAfter

\* The new-file line numbers of the Added and Unchanged changes of a path.
newFileLines(parsedDiff, p) ==
    LET linesOfChunk(c) ==
            IF "changes" \notin DOMAIN c THEN {}
            ELSE {c.changes[k].lineAfter :
                     k \in {n \in 1..Len(c.changes) :
                               c.changes[n].type \in {"AddedLine", "UnchangedLine"}}}
        linesOfFile(file) ==
            IF newPathOf(file) # p THEN {}
            ELSE UNION {linesOfChunk(file.chunks[c]) : c \in 1..Len(file.chunks)}
    IN UNION {linesOfFile(parsedDiff.files[f]) : f \in 1..Len(parsedDiff.files)}

validated == vpc \in {"filtered", "returned", "submitted"}

\* The calls of one operation made for a batch, in order.
callsOf(op, batch) ==
    LET isSuch(c) == c.op = op /\ c.batch = batch
    IN SelectSeq(calls, isSuch)

\* The comment indices of the individual attaches of a batch, in call order.
attachIndices(batch) ==
    [n \in 1..Len(callsOf("createReviewComment", batch)) |->
        callsOf("createReviewComment", batch)[n].comment]

\* The number of comments of a batch attached individually.
attachedCount(batch) ==
    Cardinality({n \in 1..Len(callsOf("createReviewComment", batch)) :
                    callsOf("createReviewComment", batch)[n].ok})

\* The two rejections the orchestrator recovers from, as the interface names
\* them: status 422 and one of the two phrases in the message.
anchoringRejection(err) ==
    /\ "status" \in DOMAIN err
    /\ err.status = 422
    /\ messageMatches(err.message, LineOutsideText)

recognizedRejection(err) ==
    /\ "status" \in DOMAIN err
    /\ err.status = 422
    /\ \/ messageMatches(err.message, LineOutsideText)
       \/ messageMatches(err.message, PendingText)

RECURSIVE concatDelivered(_)
concatDelivered(os) ==
    IF Len(os) = 0 THEN <<>> ELSE Head(os).delivered \o concatDelivered(Tail(os))

lastCall == calls[Len(calls)]

-----------------------------------------------------------------------------
\* Properties

\* C1: round trip. For a non-empty before file and an after file whose diff is
\* one chunk at line 1, replacing bottom to top the anchored old-file lines of
\* the before file by each generated draft's fenced content yields the after
\* file.
C1_RoundTrip ==
    (/\ generated
     /\ wellNumbered(chunk)
     /\ diffShaped(chunk.changes)
     /\ Len(oldLines(chunk.changes)) > 0
     /\ chunk.fromStart = 1
     /\ chunk.toStart = 1)
        => applySuggestions(oldLines(chunk.changes), result) = newLines(chunk.changes)

\* C2 as stated: for any input change sequence the groups, concatenated in
\* order, are the input sequence.
C2_PartitionAnyInput == grouped => flatten(groups) = chunk.changes

\* C2 amended: for any input sequence whose changes each match one of the three
\* variants, the closed groups followed by the open group are, at every
\* iteration, the changes read so far, and the returned groups are non-empty and
\* concatenate to the input sequence.
C2_PartitionTyped ==
    allTyped(chunk.changes) =>
        /\ pc = "group" =>
              flatten(groups) \o currentGroup = slice(chunk.changes, 1, i - 1)
        /\ grouped =>
              /\ flatten(groups) = chunk.changes
              /\ \A k \in 1..Len(groups) : Len(groups[k]) > 0

C2_Witness ==
    /\ pc = "draft"
    /\ allTyped(chunk.changes)
    /\ Len(groups) >= 2
    /\ \E k \in 1..Len(groups) : Len(groups[k]) >= 2

\* C3: a chunk of k >= 1 consecutive Deleted lines immediately followed by
\* m >= 1 Added lines, at any old-file and new-file start line, yields exactly
\* one draft, starting at the first Deleted line and spanning k lines, with
\* start_line omitted when k = 1.
C3_OneDraftPerReplacement ==
    (generated /\ wellNumbered(chunk) /\ contiguousReplacement(chunk.changes)) =>
        /\ Len(result) = 1
        /\ LET deleted == deletedLinesOf(chunk.changes)
           IN /\ startOf(result[1]) = deleted[1].lineBefore
              /\ result[1].line - startOf(result[1]) + 1 = Len(deleted)
              /\ hasStartLine(result[1]) <=> Len(deleted) > 1

\* C4: a group (of a parsed chunk) with Added and Deleted changes that is not a
\* movement gets the fenced Added contents, lineCount = number of Deleted
\* changes, and an anchor whose lines are exactly the old-file lines of its
\* Deleted changes.
C4_ReplacesDeletedSpan ==
    \A k \in 1..Len(built) :
        LET added == addedLinesOf(built[k].group)
            deleted == deletedLinesOf(built[k].group)
        IN (/\ wellNumbered(chunk)
            /\ diffShaped(chunk.changes)
            /\ Len(added) >= 1
            /\ Len(deleted) >= 1
            /\ ~(/\ Len(added) = 1
                 /\ Len(deleted) = 1
                 /\ added[1].content = deleted[1].content))
              => /\ built[k].suggestion =
                        <<[body |-> createSuggestion(Join(Contents(added), NL)),
                           lineCount |-> Len(deleted)]>>
                 /\ built[k].position[1].startLine..built[k].position[1].endLine
                        = {deleted[h].lineBefore : h \in 1..Len(deleted)}

\* C5: idempotence. A second run on the same diff, the first run's drafts having
\* been added as keys to the existing keys, returns no draft.
C5_Idempotence == pc = "rerun" => secondResult = <<>>

C5_Witness ==
    /\ pc = "rerun"
    /\ existingKeys # {}
    /\ Len(result) >= 1
    /\ Len(result) < Len(drafts)

\* C6: whenever the open group is one Unchanged change followed only by Added
\* changes and the next change is Unchanged, the open group is closed and the
\* new group is that Unchanged change alone; an alternating input Unchanged,
\* Added, ..., Unchanged is grouped into its [Unchanged, Added] pairs followed
\* by the last Unchanged change alone.
C6_BlankLineSplit ==
    /\ [][(/\ atChange
           /\ Len(currentGroup) >= 1
           /\ currentGroup[1].type = "UnchangedLine"
           /\ \A k \in 2..Len(currentGroup) : currentGroup[k].type = "AddedLine"
           /\ isUnchangedLine(chunk.changes[i]))
             => /\ groups' = Append(groups, currentGroup)
                /\ currentGroup' = <<chunk.changes[i]>>]_vars
    /\ [](LET changes == chunk.changes
              n == Len(changes) \div 2
          IN (/\ grouped
              /\ wellNumbered(chunk)
              /\ Len(changes) = 2 * n + 1
              /\ n >= 1
              /\ \A k \in 1..Len(changes) :
                    IF k % 2 = 1 THEN isUnchangedLine(changes[k])
                    ELSE isAddedLine(changes[k]))
                => groups = [k \in 1..(n + 1) |->
                                IF k <= n THEN <<changes[2 * k - 1], changes[2 * k]>>
                                ELSE <<changes[2 * n + 1]>>])

C6_Witness ==
    /\ pc = "draft"
    /\ chunk = BlankLineExample
    /\ Len(groups) = 3

\* C7: while grouping (a parsed chunk), if any Deleted change of the open group
\* has the content of the next change and that change is Added, it is appended
\* to the open group and no group is closed.
C7_MovementSuppression ==
    [][(/\ atChange
        /\ wellNumbered(chunk)
        /\ diffShaped(chunk.changes)
        /\ isAddedLine(chunk.changes[i])
        /\ \E k \in 1..Len(currentGroup) :
              /\ isDeletedLine(currentGroup[k])
              /\ currentGroup[k].content = chunk.changes[i].content)
          => /\ currentGroup' = Append(currentGroup, chunk.changes[i])
             /\ groups' = groups]_vars

\* C8: a group with no Deleted change, an Added change and an Unchanged change
\* gets a body of the context line followed by the Added contents, lineCount 1
\* and a draft without start_line.
C8_AdditionWithContext ==
    \A k \in 1..Len(built) :
        LET added == addedLinesOf(built[k].group)
            deleted == deletedLinesOf(built[k].group)
            unchanged == unchangedLinesOf(built[k].group)
        IN (Len(deleted) = 0 /\ Len(added) >= 1 /\ Len(unchanged) >= 1)
              => /\ built[k].suggestion =
                        <<[body |-> createSuggestion(
                                        Join(<<unchanged[1].content>> \o Contents(added), NL)),
                           lineCount |-> 1]>>
                 /\ ~hasStartLine(built[k].draft[1])

\* C9: a group with exactly one Deleted and one Added change of equal content
\* and an Unchanged change before the Deleted line is anchored from its first
\* such Unchanged line; the body is the context, a blank line, the moved
\* content and max(N - 1, 0) blank lines; lineCount = 2 + N, N being the number
\* of blank Unchanged changes after the Deleted line.
C9_MovementSynthesis ==
    \A k \in 1..Len(built) :
        LET added == addedLinesOf(built[k].group)
            deleted == deletedLinesOf(built[k].group)
            unchanged == unchangedLinesOf(built[k].group)
        IN (/\ Len(added) = 1
            /\ Len(deleted) = 1
            /\ added[1].content = deleted[1].content
            /\ \E u \in 1..Len(unchanged) :
                  unchanged[u].lineBefore < deleted[1].lineBefore)
              => LET c == CHOOSE u \in 1..Len(unchanged) :
                              /\ unchanged[u].lineBefore < deleted[1].lineBefore
                              /\ \A h \in 1..(u - 1) :
                                    unchanged[h].lineBefore >= deleted[1].lineBefore
                     N == Cardinality({u \in 1..Len(unchanged) :
                              /\ unchanged[u].content = Blank
                              /\ unchanged[u].lineBefore > deleted[1].lineBefore})
                 IN /\ built[k].suggestion =
                           <<[body |-> createSuggestion(Join(
                                  <<unchanged[c].content, Blank, deleted[1].content>>
                                      \o blanks(IF N >= 1 THEN N - 1 ELSE 0), NL)),
                              lineCount |-> 2 + N]>>
                    /\ built[k].position[1].startLine = unchanged[c].lineBefore
                    /\ built[k].draft[1].start_line = unchanged[c].lineBefore
                    /\ built[k].draft[1].line = unchanged[c].lineBefore + N + 1

C9_Witness ==
    \E k \in 1..Len(built) :
        LET added == addedLinesOf(built[k].group)
            deleted == deletedLinesOf(built[k].group)
            unchanged == unchangedLinesOf(built[k].group)
        IN /\ Len(added) = 1
           /\ Len(deleted) = 1
           /\ added[1].content = deleted[1].content
           /\ \E u \in 1..Len(unchanged) : unchanged[u].lineBefore < deleted[1].lineBefore
           /\ \E u \in 1..Len(unchanged) :
                 /\ unchanged[u].content = Blank
                 /\ unchanged[u].lineBefore > deleted[1].lineBefore

\* C10: the movement example yields two suggestions.
C10_MovementExampleTwoSuggestions ==
    (generated /\ chunk = MovementExample) => Len(result) = 2

\* C11: a group with k >= 1 Deleted changes at consecutive old-file lines
\* n .. n+k-1 and no Added change gets the empty suggestion fence as body,
\* lineCount = k and the anchor (startLine = n, endLine = n + k - 1).
C11_PureDeletionAnchor ==
    \A k \in 1..Len(built) :
        LET added == addedLinesOf(built[k].group)
            deleted == deletedLinesOf(built[k].group)
        IN (/\ Len(added) = 0
            /\ Len(deleted) >= 1
            /\ \A h \in 1..Len(deleted) :
                  deleted[h].lineBefore = deleted[1].lineBefore + h - 1)
              => /\ built[k].suggestion =
                        <<[body |-> <<FenceOpen, NL, NL, FenceClose>>,
                           lineCount |-> Len(deleted)]>>
                 /\ built[k].position =
                        <<[startLine |-> deleted[1].lineBefore,
                           endLine |-> deleted[1].lineBefore + Len(deleted) - 1]>>

C11_Witness ==
    \E k \in 1..Len(built) :
        LET deleted == deletedLinesOf(built[k].group)
        IN /\ Len(addedLinesOf(built[k].group)) = 0
           /\ Len(deleted) >= 2
           /\ isUnchangedLine(built[k].group[1])
           /\ built[k].position # <<>>
           /\ built[k].position[1].startLine = deleted[1].lineBefore

\* C12: every draft built from a group has line = startLine + lineCount - 1;
\* start_line, with start_side RIGHT, is present exactly when lineCount > 1,
\* and then start_line = startLine and start_line < line.
C12_DraftShape ==
    \A k \in 1..Len(built) :
        built[k].draft # <<>> =>
            LET draft == built[k].draft[1]
                lineCount == built[k].suggestion[1].lineCount
                startLine == built[k].position[1].startLine
            IN /\ draft.line = startLine + lineCount - 1
               /\ hasStartLine(draft) <=> lineCount > 1
               /\ "start_side" \in DOMAIN draft <=> hasStartLine(draft)
               /\ hasStartLine(draft) =>
                     /\ draft.start_side = "RIGHT"
                     /\ draft.start_line = startLine
                     /\ draft.start_line < draft.line

C12_Witness ==
    /\ \E k \in 1..Len(built) : built[k].draft # <<>> /\ hasStartLine(built[k].draft[1])
    /\ \E k \in 1..Len(built) : built[k].draft # <<>> /\ ~hasStartLine(built[k].draft[1])

\* C13: every draft emitted for a chunk of a changed file has line >= 1 and,
\* when present, start_line >= 1; a pure addition whose Unchanged context
\* follows the additions starts at max(1, contextLine - 1).
C13_AnchorsPositive ==
    /\ generated =>
          \A k \in 1..Len(result) :
              /\ result[k].line >= 1
              /\ hasStartLine(result[k]) => result[k].start_line >= 1
    /\ \A k \in 1..Len(built) :
          LET added == addedLinesOf(built[k].group)
              unchanged == unchangedLinesOf(built[k].group)
          IN (/\ Len(deletedLinesOf(built[k].group)) = 0
              /\ Len(added) >= 1
              /\ Len(unchanged) >= 1
              /\ unchanged[1].lineAfter > added[1].lineAfter)
                => built[k].position[1].startLine =
                      (IF unchanged[1].lineBefore - 1 >= 1
                       THEN unchanged[1].lineBefore - 1 ELSE 1)

\* C14: given a parsed authoritative diff, the validator keeps a draft exactly
\* when its line and, when present, its start_line are new-file line numbers of
\* Added or Unchanged changes of the draft's path; the kept drafts are returned
\* unmodified and in their original relative order.
C14_DiffBoundaryValidation ==
    (validated /\ authoritativeDiff # <<>>) =>
        LET inDiff(comment) ==
                LET lines == newFileLines(authoritativeDiff[1], comment.path)
                IN /\ comment.line \in lines
                   /\ hasStartLine(comment) => comment.start_line \in lines
        IN comments = SelectSeq(initialComments, inDiff)

\* C15: whenever the authoritative diff cannot be obtained (pulls.get is
\* unavailable, throws, or returns something that is not a diff string) or
\* cannot be parsed, the validator returns the input drafts unchanged, and run
\* goes on to submit exactly these drafts when there are any.
C15_ValidatorFailsOpen ==
    authoritativeDiff = <<>> =>
        /\ validated => comments = initialComments
        /\ vpc = "submitted" => reviewRequest = <<initialComments>>
        /\ vpc = "returned" => initialComments = <<>>

C15_Witness ==
    /\ vpc = "submitted"
    /\ octokit.kind = "returns"
    /\ octokit.data.isString
    /\ startsWithDiffGit(octokit.data.text)
    /\ parseGitDiff(octokit.data) = <<>>
    /\ Len(initialComments) = MaxComments
    /\ reviewRequest = <<initialComments>>

C17_SalvageOutcome ==
    /\ \A j \in 1..Len(batches) :
          /\ Len(callsOf("submitReview", j)) <= 1
          /\ Len(callsOf("deletePendingReview", j)) <= 1
          /\ Len(callsOf("submitReview", j)) = 1 =>
                /\ attachedCount(j) >= 1
                /\ Len(attachIndices(j)) = Len(batches[j])
                /\ Len(callsOf("deletePendingReview", j)) = 0
          /\ Len(callsOf("deletePendingReview", j)) = 1 =>
                /\ attachedCount(j) = 0
                /\ Len(attachIndices(j)) = Len(batches[j])
    /\ \A j \in 1..Len(outcomes) :
          /\ outcomes[j].kind = "salvaged" =>
                /\ attachedCount(j) >= 1
                /\ Len(callsOf("submitReview", j)) = 1
                /\ outcomes[j].result.reviewCreated
          /\ outcomes[j].kind = "dropped" =>
                /\ attachedCount(j) = 0
                /\ Len(callsOf("submitReview", j)) = 0
                /\ Len(callsOf("deletePendingReview", j)) = 1
                /\ outcomes[j].result = [comments |-> <<>>, reviewCreated |-> FALSE]

C17_Witness ==
    /\ Len(outcomes) = 2
    /\ outcomes[1].kind = "dropped"
    /\ outcomes[2].kind = "salvaged"

C19_ResultReportsDelivered ==
    rpc = "done" => runResult[1].comments = concatDelivered(outcomes)

\* C20: the batch after a delivered or dropped batch is still submitted; the
\* comments of the final result are the delivered comments of the batches, in
\* batch order, and reviewCreated tells whether any batch produced a review.
C20_BatchesIndependent ==
    (rpc = "done" /\ Len(reviewDrafts) > 0) =>
        /\ Len(outcomes) = Len(batches)
        /\ \A j \in 1..Len(batches) : Len(callsOf("createReview", j)) = 1
        /\ runResult[1].reviewCreated <=>
              \E j \in 1..Len(outcomes) : outcomes[j].kind \in {"accepted", "salvaged"}
        /\ runResult[1].comments =
              concatDelivered(SelectSeq(outcomes, LAMBDA o : o.kind # "dropped"))

\* C21: for M drafts and a batch size N the run makes the least number of
\* batches that holds them all (the ceiling of M/N, none for no draft); every
\* batch but the last has exactly N drafts and the last has between 1 and N;
\* the batches are consecutive slices of the drafts in their order, so their
\* concatenation is the sequence of the drafts.
C21_Batching ==
    rpc # "idle" =>
        LET made == batchComments(reviewDrafts, batchSize)
        IN /\ Len(made) * batchSize >= Len(reviewDrafts)
           /\ (Len(made) - 1) * batchSize < Len(reviewDrafts)
           /\ \A j \in 1..Len(made) :
                 /\ j < Len(made) => Len(made[j]) = batchSize
                 /\ Len(made[j]) \in 1..batchSize
                 /\ \A n \in 1..Len(made[j]) :
                       made[j][n] = reviewDrafts[(j - 1) * batchSize + n]
           /\ flatten(made) = reviewDrafts
           /\ rpc # "start" /\ Len(reviewDrafts) > 0 => batches = made

\* C21: three batches are made, the last one shorter than the batch size.
C21_Witness ==
    /\ rpc = "batch"
    /\ Len(batches) = 3
    /\ Len(batches[1]) = batchSize
    /\ Len(batches[3]) < batchSize

\* The answered calls of a batch, in call order.
batchCalls(batch) ==
    LET isSuch(c) == c.batch = batch
    IN SelectSeq(calls, isSuch)

\* C22: at most one request to the review API is outstanding at any time. The
\* batches are handled in order, and a request for a batch is sent only when
\* every earlier batch has its final outcome. Within a salvage the attaches
\* are sent one after another in the order of the drafts, each after the
\* answer to the one before, and the pending review is submitted or discarded
\* only after the attach of the last draft was answered.
C22_StrictSequencing ==
    /\ Len(inFlight) <= 1
    /\ \A c \in 1..Len(calls), d \in 1..Len(calls) :
          c < d => calls[c].batch <= calls[d].batch
    /\ \A n \in 1..Len(inFlight) :
          /\ inFlight[n].batch = batchIndex
          /\ Len(outcomes) = inFlight[n].batch - 1
          /\ \A c \in 1..Len(calls) : calls[c].batch <= inFlight[n].batch
          /\ inFlight[n].op = "createReviewComment" =>
                attachIndices(batchIndex) = [m \in 1..(inFlight[n].comment - 1) |-> m]
          /\ inFlight[n].op \in {"submitReview", "deletePendingReview"} =>
                attachIndices(batchIndex) = [m \in 1..Len(batches[batchIndex]) |-> m]
    /\ \A j \in 1..Len(batches) :
          /\ \A n \in 1..Len(attachIndices(j)) : attachIndices(j)[n] = n
          /\ \A c \in 1..Len(batchCalls(j)) :
                batchCalls(j)[c].op \in {"submitReview", "deletePendingReview"} =>
                    /\ c = Len(batchCalls(j))
                    /\ Len(attachIndices(j)) = Len(batches[j])

\* C22: in the salvage of the second batch the attach of the second draft is
\* outstanding, after the answer to the attach of the first.
C22_Witness ==
    /\ batchIndex = 2
    /\ inFlight = <<Request("createReviewComment", 2, 2)>>
    /\ attachIndices(2) = <<1>>
    /\ Len(outcomes) = 1

\* The request error of the rate-limit test: status 429, 'API rate limit
\* exceeded'.
rateLimitError ==
    [isRequestError |-> TRUE, status |-> 429, message |-> <<"API rate limit exceeded">>]

\* C23: when the createReview of the only batch fails with the 429 'API rate
\* limit exceeded' request error, run makes that one createReview attempt and
\* no other, raises nothing, and returns no comments and no review created.
C23_RateLimitHandledGracefully ==
    Len(batches) = 1 /\ batchError = <<rateLimitError>> =>
        /\ Len(callsOf("createReview", 1)) = 1
        /\ raised = <<>>
        /\ rpc # "failed"
        /\ rpc = "done" => runResult = <<[comments |-> <<>>, reviewCreated |-> FALSE]>>

terminated == rpc \in {"done", "failed"}

\* C24: when every API call is answered, every run ends, with a result or
\* with a fatal error. No call is repeated: the createReview of a batch is
\* answered at most once and each comment of a batch is attached at most
\* once. A salvage that attached some comments and skipped others ends as a
\* normal outcome of its batch, not as an error.
C24_Termination ==
    /\ <>terminated
    /\ [](/\ rpc = "done" => runResult # <<>> /\ raised = <<>>
          /\ rpc = "failed" => raised # <<>> /\ runResult = <<>>
          /\ terminated => inFlight = <<>>
          /\ \A j \in 1..Len(batches) :
                /\ Len(callsOf("createReview", j)) <= 1
                /\ \A n \in 1..Len(batches[j]) :
                      Cardinality({c \in 1..Len(attachIndices(j)) :
                                      attachIndices(j)[c] = n}) <= 1
          /\ (/\ Len(calls) > 0
              /\ lastCall.op = "submitReview"
              /\ lastCall.ok
              /\ attachedCount(lastCall.batch) < Len(batches[lastCall.batch]))
                => /\ rpc \in {"next", "batch", "done"}
                   /\ raised = <<>>
                   /\ Len(outcomes) >= lastCall.batch
                   /\ outcomes[lastCall.batch].result.reviewCreated)

\* C24: the run has ended with a result after a salvage that attached one
\* comment of its batch and skipped the other.
C24_Witness ==
    /\ rpc = "done"
    /\ \E j \in 1..Len(outcomes) :
          /\ outcomes[j].kind = "salvaged"
          /\ Len(outcomes[j].delivered) = 1
          /\ Len(batches[j]) = 2

\* C25: when no draft remains after generation, deduplication and validation,
\* run makes no createReview call and returns no comments and no review
\* created; createReview is never called with an empty list of comments.
C25_NoEmptyReview ==
    /\ reviewRequest # <<>> => Len(reviewRequest[1]) > 0
    /\ vpc = "submitted" => reviewRequest = <<comments>> /\ Len(comments) > 0
    /\ vpc = "returned" =>
          /\ Len(comments) = 0
          /\ reviewRequest = <<>>
          /\ runResult = <<[comments |-> <<>>, reviewCreated |-> FALSE]>>
    /\ vpc \in {"returned", "submitted"} /\ Len(comments) = 0 => vpc = "returned"

\* C25: drafts were generated, the validator dropped them all, and run has
\* returned without a review.
C25_Witness ==
    /\ vpc = "returned"
    /\ Len(initialComments) > 0
    /\ Len(comments) = 0
    /\ runResult # <<>>

\* The field of a comment: <<>> when it is absent or null.
fieldOf(comment, name) == IF name \in DOMAIN comment THEN <<comment[name]>> ELSE <<>>

\* Two comments with the same path, line, start_line and body.
sameTuple(c1, c2) ==
    /\ c1.path = c2.path
    /\ c1.body = c2.body
    /\ fieldOf(c1, "line") = fieldOf(c2, "line")
    /\ fieldOf(c1, "start_line") = fieldOf(c2, "start_line")

\* C26: generateCommentKey gives equal keys to comments with equal path, line,
\* start_line and body and distinct keys to comments that differ in one of
\* them, drafts and posted comments alike; so a draft is filtered out only
\* when a posted comment has the same path, line, start_line and body.
C26_KeysIdentifyComments ==
    kpc = "filtered" =>
        \A d \in 1..Len(candidates) :
            /\ \A c \in 1..Len(postedComments) :
                  sameTuple(candidates[d], postedComments[c])
                      <=> generateCommentKey(candidates[d])
                              = generateCommentKey(postedComments[c])
            /\ (\A n \in 1..Len(keptDrafts) : keptDrafts[n] # candidates[d])
                  => \E c \in 1..Len(postedComments) :
                        sameTuple(candidates[d], postedComments[c])

\* A record whose declared type lacks its numeric coordinate.
lacksCoordinate(change) ==
    \/ change.type = "AddedLine" /\ "lineAfter" \notin DOMAIN change
    \/ change.type = "DeletedLine" /\ "lineBefore" \notin DOMAIN change
    \/ /\ change.type = "UnchangedLine"
       /\ "lineBefore" \notin DOMAIN change \/ "lineAfter" \notin DOMAIN change

\* The chunk without the records that lack their coordinate.
wellFormedPart(c) ==
    LET hasCoordinate(change) == ~lacksCoordinate(change)
    IN [c EXCEPT !.changes = SelectSeq(c.changes, hasCoordinate)]

\* C27: a record whose declared type lacks its numeric coordinate satisfies
\* none of the three guards; grouping and synthesis go through on a chunk that
\* holds one, the record is in no group, and the groups, the suggestion bodies,
\* their line counts, the anchors and the drafts are those of the chunk
\* without the record.
C27_DefensiveNarrowing ==
    /\ \A k \in 1..Len(chunk.changes) :
          lacksCoordinate(chunk.changes[k]) =>
              /\ ~isAddedLine(chunk.changes[k])
              /\ ~isDeletedLine(chunk.changes[k])
              /\ ~isUnchangedLine(chunk.changes[k])
    /\ \A k \in 1..Len(currentGroup) : ~lacksCoordinate(currentGroup[k])
    /\ \A k \in 1..Len(groups) :
          \A n \in 1..Len(groups[k]) : ~lacksCoordinate(groups[k][n])
    /\ grouped => groups = groupChangesForSuggestions(wellFormedPart(chunk).changes)
    /\ \A k \in 1..Len(built) :
          LET clean == groupChangesForSuggestions(wellFormedPart(chunk).changes)[k]
          IN /\ built[k].group = clean
             /\ built[k].suggestion = generateSuggestionBody(clean)
             /\ built[k].draft = buildCommentDraft(Path, chunk.fromStart, clean)
    /\ pc \in {"done", "rerun"} =>
          drafts = draftsOfGroups(Path, chunk.fromStart,
                                  groupChangesForSuggestions(wellFormedPart(chunk).changes))

\* C27: a chunk with a record that lacks its coordinate among changed lines
\* has been grouped and has given a draft.
C27_Witness ==
    /\ generated
    /\ \E k \in 1..Len(chunk.changes) : lacksCoordinate(chunk.changes[k])
    /\ Len(chunk.changes) >= 3
    /\ Len(result) >= 1

\* The old-file lines a draft replaces.
anchorRange(draft) == startOf(draft)..draft.line

\* C28: the drafts generateReviewComments gives for the chunk of a file have
\* pairwise disjoint ranges of old-file lines, from start_line (or line, when
\* there is no start_line) to line: no two of them target the same line.
C28_DisjointAnchors ==
    (generated /\ wellNumbered(chunk) /\ diffShaped(chunk.changes)) =>
        \A k \in 1..Len(result), l \in 1..Len(result) :
            k # l => anchorRange(result[k]) \cap anchorRange(result[l]) = {}

\* The pending reviews this run created: the ids the successful
\* createPendingReview calls gave, with the index of the call.
createdPending ==
    {c \in 1..Len(calls) : calls[c].op = "createPendingReview" /\ calls[c].ok}

\* C29: when run has ended, by returning or by raising, every pending review
\* it created during a salvage has been submitted or deleted by a successful
\* call, also when an attach, the submit or the delete call failed.
C29_NoDanglingPendingReview ==
    terminated =>
        \A c \in createdPending :
            \E d \in (c + 1)..Len(calls) :
                /\ calls[d].op \in {"submitReview", "deletePendingReview"}
                /\ calls[d].review = calls[c].review
                /\ calls[d].ok

\* C30: deletePendingReview is called only on a pending review this run
\* created: a pending review that was there before and is reused for the
\* salvage is never deleted, also when no comment could be attached.
C30_OnlyOwnPendingReviewsDeleted ==
    \A d \in 1..Len(calls) :
        calls[d].op = "deletePendingReview" =>
            \E c \in createdPending : c < d /\ calls[c].review = calls[d].review

====
